---- MODULE Spec2Model ----
(***************************************************************************)
(* WorkerView (www/base/src/views/WorkerView/WorkerView.tsx): the view of  *)
(* one worker of the dashboard.  The model follows one function component: *)
(* its two state cells, the four queries it declares, the top-bar action   *)
(* list and the action modal it renders, and the route it registers when   *)
(* the module is loaded.  Every user event or query event is one action:   *)
(* the handler's assignment followed by the re-render of the component.    *)
(*                                                                         *)
(* Strings the code computes with are sequences of one-character strings,  *)
(* so that Number.parseInt and Number.prototype.toString are computed, not *)
(* assumed.  A JavaScript number is a record, NaN being one of them.       *)
(***************************************************************************)
EXTENDS Integers, Sequences, FiniteSets, TLC

VARIABLES
  moduleLoaded,       \* the module's top-level code has run
  registeredRoutes,   \* the routes registered with the plugin registry
  mounted,            \* a WorkerView instance is mounted
  routeParam,         \* useParams().workerid
  accessor,           \* the data accessor: open or not, and the dependency list it was opened for
  buildsFetchLimit,   \* state cell of useLoadMoreItemsState
  workerForActions,   \* state cell of useState<null|Worker>
  workersQuery,       \* the collections the four query hooks hold
  buildersQuery,
  mastersQuery,
  buildsQuery,
  buildsQueryDep,     \* the dependency list stored by the dynamic query hook
  topBarActions,      \* what the last render handed to useTopbarActions
  modals,             \* the WorkerActionsModal elements of the last render
  lastOp,             \* history: the handler that ran last
  issuedNow,          \* history: the queries the last render issued
  loadMoreCount,      \* history: "load more" invocations since mount
  prevWorkerForActions \* history: workerForActions before the last handler

vars == <<moduleLoaded, registeredRoutes, mounted, routeParam, accessor,
          buildsFetchLimit, workerForActions, workersQuery, buildersQuery,
          mastersQuery, buildsQuery, buildsQueryDep, topBarActions, modals,
          lastOp, issuedNow, loadMoreCount, prevWorkerForActions>>

\* How many times "load more" is followed in one mounted instance.
MaxLoadMore == 3

-----------------------------------------------------------------------------
(* JavaScript values *)

NaN == [isNaN |-> TRUE, value |-> 0]
Num(n) == [isNaN |-> FALSE, value |-> n]

null == [kind |-> "null"]
undefined == [kind |-> "undefined"]

RECURSIVE NatToString(_)
NatToString(n) ==
  LET d == <<"0", "1", "2", "3", "4", "5", "6", "7", "8", "9">>[(n % 10) + 1]
  IN IF n < 10 THEN <<d>> ELSE NatToString(n \div 10) \o <<d>>

\* Number.prototype.toString() of an integer below 10^21, or of NaN.
NumberToString(x) ==
  IF x.isNaN THEN <<"N", "a", "N">>
  ELSE IF x.value < 0 THEN <<"-">> \o NatToString(-x.value)
  ELSE NatToString(x.value)

WhiteSpace == {" ", "\t", "\n"}

DigitValue(c) ==
  CASE c = "0" -> 0 [] c = "1" -> 1 [] c = "2" -> 2 [] c = "3" -> 3
    [] c = "4" -> 4 [] c = "5" -> 5 [] c = "6" -> 6 [] c = "7" -> 7
    [] c = "8" -> 8 [] c = "9" -> 9
    [] c \in {"a", "A"} -> 10 [] c \in {"b", "B"} -> 11
    [] c \in {"c", "C"} -> 12 [] c \in {"d", "D"} -> 13
    [] c \in {"e", "E"} -> 14 [] c \in {"f", "F"} -> 15
    [] OTHER -> 99

RECURSIVE TrimStart(_)
TrimStart(s) ==
  IF s # <<>> /\ Head(s) \in WhiteSpace THEN TrimStart(Tail(s)) ELSE s

\* The value of the longest prefix of s made of digits of the radix, as
\* <<number of digits, value>>.
RECURSIVE DigitsPrefix(_, _, _, _)
DigitsPrefix(s, radix, count, acc) ==
  IF s # <<>> /\ DigitValue(Head(s)) < radix
  THEN DigitsPrefix(Tail(s), radix, count + 1, acc * radix + DigitValue(Head(s)))
  ELSE <<count, acc>>

\* Number.parseInt(string) with no radix argument.
ParseInt(string) ==
  LET s0 == TrimStart(string)
      signed == s0 # <<>> /\ Head(s0) \in {"+", "-"}
      sign == IF s0 # <<>> /\ Head(s0) = "-" THEN -1 ELSE 1
      s1 == IF signed THEN Tail(s0) ELSE s0
      hex == Len(s1) >= 2 /\ s1[1] = "0" /\ s1[2] \in {"x", "X"}
      s2 == IF hex THEN Tail(Tail(s1)) ELSE s1
      z == DigitsPrefix(s2, IF hex THEN 16 ELSE 10, 0, 0)
  IN IF z[1] = 0 THEN NaN ELSE Num(sign * z[2])

-----------------------------------------------------------------------------
(* The inputs *)

NoParam == [defined |-> FALSE, value |-> <<>>]
Param(s) == [defined |-> TRUE, value |-> s]

\* The values of the route's workerid segment that are followed.
RouteParams ==
  { NoParam,
    Param(<<"4", "2">>),
    Param(<<"7">>),
    Param(<<" ", "0", "4", "2", "a", "b">>),
    Param(<<"-", "5">>),
    Param(<<"0", "x", "1", "F">>),
    Param(<<"a", "b", "c">>) }

Worker(n) == [kind |-> "Worker", workerid |-> n]

\* The workers the server knows; worker ids are unique.
ServerWorkers == {Worker(7), Worker(42), Worker(31)}

-----------------------------------------------------------------------------
(* The data layer and the helper hooks, as the view uses them *)

\* A collection no hook has created yet.
NotIssued ==
  [issued |-> FALSE, request |-> [endpoint |-> "none"], resolved |-> FALSE, array |-> <<>>]

\* The collection a getAll call returns: pending, nothing in its array.
NewCollection(request) ==
  [issued |-> TRUE, request |-> request, resolved |-> FALSE, array |-> <<>>]

isResolved(q) == q.resolved

\* What a worker-by-id request can resolve to: no record, or the one worker
\* whose id has that string form.
ServerLookup(id) ==
  {<<>>} \cup {<<w>> : w \in {v \in ServerWorkers : NumberToString(Num(v.workerid)) = id}}

NoAccessor == [open |-> FALSE, dependency |-> <<>>]

\* useDataAccessor: a new accessor on the first render and whenever the
\* dependency list differs from the stored one; the collections of the closed
\* accessor are no longer valid.
AccessorReopened(dependency) ==
  ~accessor.open \/ accessor.dependency # dependency

\* useLoadMoreItemsState: the callback raises the limit by the step.
LoadMoreNext(limit, step) == limit + step

\* The property names the build-link helper asks for.
getBuildLinkDisplayProperties == <<"build-link display properties">>

\* The rows of WorkersTable: one per worker it was given.
WorkersTableRows(workers) == {workers[i] : i \in 1..Len(workers)}

-----------------------------------------------------------------------------
(* WorkerView *)

workerid(p) == ParseInt(IF p.defined THEN p.value ELSE <<>>)

\* The accessor opened with no dependency: it is never re-opened.
AccessorDependencyEmpty(p) == <<>>

AccessorDependency(p) == <<workerid(p)>>

initialBuildsFetchLimit == 100

\* A step that is not the initial limit.
LoadMoreStepHalf == initialBuildsFetchLimit \div 2

LoadMoreStep == initialBuildsFetchLimit

\* The route parameter handed on as it came, not the parsed id's string form.
WorkersRequestRawParam(p) ==
  [endpoint |-> "workers", id |-> IF p.defined THEN p.value ELSE <<>>]

WorkersRequest(p) == [endpoint |-> "workers", id |-> NumberToString(workerid(p))]

BuildersRequest == [endpoint |-> "builders"]

MastersRequest == [endpoint |-> "masters"]

\* The modal target listed as a dependency of the builds query too.
BuildsQueryDependencyWithTarget(limit) == <<limit, workerForActions'>>

BuildsQueryDependency(limit) == <<limit>>

\* The initial limit requested whatever the state cell holds.
BuildsRequestInitialLimit(p, limit) ==
  [endpoint |-> "builds",
   query |-> [property |-> <<"owners", "workername", "branch", "revision">>
                             \o getBuildLinkDisplayProperties,
              workerid__eq |-> workerid(p),
              limit |-> initialBuildsFetchLimit,
              order |-> "-buildid"]]

BuildsRequest(p, limit) ==
  [endpoint |-> "builds",
   query |-> [property |-> <<"owners", "workername", "branch", "revision">>
                             \o getBuildLinkDisplayProperties,
              workerid__eq |-> workerid(p),
              limit |-> limit,
              order |-> "-buildid"]]

\* The index off by one.
ActionsTargetSecond(q) == IF Len(q.array) >= 2 THEN q.array[2] ELSE undefined

\* The worker the "Actions..." callback hands to setWorkerForActions.
ActionsTarget(q) == IF Len(q.array) >= 1 THEN q.array[1] ELSE undefined

\* The length test written >= 0.
TopBarActionsAnyLength(q) ==
  IF Len(q.array) >= 0
  THEN <<[caption |-> "Actions...", variant |-> "primary"]>>
  ELSE <<>>

\* The length test left out.
TopBarActionsResolvedOnly(q) ==
  IF isResolved(q)
  THEN <<[caption |-> "Actions...", variant |-> "primary"]>>
  ELSE <<>>

TopBarActions(q) ==
  IF isResolved(q) /\ Len(q.array) >= 1
  THEN <<[caption |-> "Actions...", variant |-> "primary"]>>
  ELSE <<>>

\* The modal rendered without the null test.
ModalElementsAlways(w) == <<[worker |-> w]>>

ModalElements(w) == IF w # null THEN <<[worker |-> w]>> ELSE <<>>

\* The route registered twice.
SetupPluginRoutesTwice ==
  <<[route |-> "workers/:workerid", group |-> "workers"],
    [route |-> "workers/:workerid", group |-> "workers"]>>

SetupPluginRoutes == <<[route |-> "workers/:workerid", group |-> "workers"]>>

\* One render of the component: p, limit, wfa are the route parameter and the
\* two state cells the render sees; wq, brq, mq, bq the collections the hooks
\* hold when it starts.
Render(p, limit, wfa, wq, brq, mq, bq) ==
  LET dep == AccessorDependency(p)
      reopen == AccessorReopened(dep)
      newW == ~wq.issued \/ reopen
      newBr == ~brq.issued \/ reopen
      newM == ~mq.issued \/ reopen
      newB == ~bq.issued \/ reopen \/ buildsQueryDep # BuildsQueryDependency(limit)
      wq1 == IF newW THEN NewCollection(WorkersRequest(p)) ELSE wq
  IN /\ accessor' = [open |-> TRUE, dependency |-> dep]
     /\ workersQuery' = wq1
     /\ buildersQuery' = IF newBr THEN NewCollection(BuildersRequest) ELSE brq
     /\ mastersQuery' = IF newM THEN NewCollection(MastersRequest) ELSE mq
     /\ buildsQuery' = IF newB THEN NewCollection(BuildsRequest(p, limit)) ELSE bq
     /\ buildsQueryDep' = IF newB THEN BuildsQueryDependency(limit) ELSE buildsQueryDep
     /\ topBarActions' = TopBarActions(wq1)
     /\ modals' = ModalElements(wfa)
     /\ issuedNow' = {n \in {"workers", "builders", "masters", "builds"} :
                        \/ n = "workers" /\ newW
                        \/ n = "builders" /\ newBr
                        \/ n = "masters" /\ newM
                        \/ n = "builds" /\ newB}

\* A re-render in which only the two state cells may have changed.
Rerender(limit, wfa) ==
  Render(routeParam, limit, wfa, workersQuery, buildersQuery, mastersQuery, buildsQuery)

History(op) ==
  /\ lastOp' = op
  /\ prevWorkerForActions' = workerForActions

-----------------------------------------------------------------------------
(* The actions *)

Init ==
  /\ moduleLoaded = FALSE
  /\ registeredRoutes = <<>>
  /\ mounted = FALSE
  /\ routeParam = NoParam
  /\ accessor = NoAccessor
  /\ buildsFetchLimit = initialBuildsFetchLimit
  /\ workerForActions = null
  /\ workersQuery = NotIssued
  /\ buildersQuery = NotIssued
  /\ mastersQuery = NotIssued
  /\ buildsQuery = NotIssued
  /\ buildsQueryDep = <<>>
  /\ topBarActions = <<>>
  /\ modals = <<>>
  /\ lastOp = "none"
  /\ issuedNow = {}
  /\ loadMoreCount = 0
  /\ prevWorkerForActions = null

\* The module's top-level code: buildbotSetupPlugin runs the callback once.
LoadModule ==
  /\ ~moduleLoaded
  /\ moduleLoaded' = TRUE
  /\ registeredRoutes' = registeredRoutes \o SetupPluginRoutes
  /\ History("loadModule")
  /\ UNCHANGED <<mounted, routeParam, accessor, buildsFetchLimit, workerForActions,
                 workersQuery, buildersQuery, mastersQuery, buildsQuery,
                 buildsQueryDep, topBarActions, modals, issuedNow, loadMoreCount>>

\* The router renders the registered element for a location workers/<p>.
Mount(p) ==
  /\ moduleLoaded /\ ~mounted
  /\ mounted' = TRUE
  /\ routeParam' = p
  /\ buildsFetchLimit' = initialBuildsFetchLimit
  /\ workerForActions' = null
  /\ loadMoreCount' = 0
  /\ Render(p, initialBuildsFetchLimit, null, NotIssued, NotIssued, NotIssued, NotIssued)
  /\ History("mount")
  /\ UNCHANGED <<moduleLoaded, registeredRoutes>>

\* The view leaves the page: its cells, its accessor and its elements go.
Unmount ==
  /\ mounted
  /\ mounted' = FALSE
  /\ routeParam' = NoParam
  /\ accessor' = NoAccessor
  /\ buildsFetchLimit' = initialBuildsFetchLimit
  /\ workerForActions' = null
  /\ loadMoreCount' = 0
  /\ workersQuery' = NotIssued
  /\ buildersQuery' = NotIssued
  /\ mastersQuery' = NotIssued
  /\ buildsQuery' = NotIssued
  /\ buildsQueryDep' = <<>>
  /\ modals' = <<>>
  /\ issuedNow' = {}
  /\ History("unmount")
  /\ UNCHANGED <<moduleLoaded, registeredRoutes, topBarActions>>

\* The location changes to another worker's page; the same instance re-renders.
RouteChange(p) ==
  /\ mounted /\ p # routeParam
  /\ routeParam' = p
  /\ UNCHANGED <<moduleLoaded, registeredRoutes, mounted, buildsFetchLimit,
                 workerForActions, loadMoreCount>>
  /\ Render(p, buildsFetchLimit, workerForActions,
            workersQuery, buildersQuery, mastersQuery, buildsQuery)
  /\ History("routeChange")

\* BuildsTable's onLoadMore.
onLoadMoreBuilds ==
  /\ mounted /\ loadMoreCount < MaxLoadMore
  /\ buildsFetchLimit' = LoadMoreNext(buildsFetchLimit, LoadMoreStep)
  /\ loadMoreCount' = loadMoreCount + 1
  /\ UNCHANGED <<moduleLoaded, registeredRoutes, mounted, routeParam, workerForActions>>
  /\ Rerender(buildsFetchLimit', workerForActions)
  /\ History("onLoadMore")

setWorkerForActions(w, op) ==
  /\ workerForActions' = w
  /\ UNCHANGED <<moduleLoaded, registeredRoutes, mounted, routeParam,
                 buildsFetchLimit, loadMoreCount>>
  /\ Rerender(buildsFetchLimit, w)
  /\ History(op)

\* The user invokes the "Actions..." entry of the top bar.
TopbarActionInvoke ==
  /\ mounted /\ topBarActions # <<>>
  /\ setWorkerForActions(ActionsTarget(workersQuery), "topbarAction")

\* The user clicks the icon of a row of WorkersTable.
onWorkerIconClick(worker) ==
  /\ mounted /\ worker \in WorkersTableRows(workersQuery.array)
  /\ setWorkerForActions(worker, "onWorkerIconClick")

\* The modal's onClose.
onClose ==
  /\ mounted /\ modals # <<>>
  /\ setWorkerForActions(null, "onClose")

\* A change of the collection wq, brq, mq or bq stands for; the observer
\* re-renders with the state cells as they are.
QueryEvent(op, wq, brq, mq, bq) ==
  /\ UNCHANGED <<moduleLoaded, registeredRoutes, mounted, routeParam,
                 buildsFetchLimit, workerForActions, loadMoreCount>>
  /\ Render(routeParam, buildsFetchLimit, workerForActions, wq, brq, mq, bq)
  /\ History(op)

\* The worker request completes.
WorkersQueryResolve(array) ==
  /\ mounted /\ workersQuery.issued /\ ~workersQuery.resolved
  /\ array \in ServerLookup(workersQuery.request.id)
  /\ QueryEvent("workersResolved",
                [workersQuery EXCEPT !.resolved = TRUE, !.array = array],
                buildersQuery, mastersQuery, buildsQuery)

\* A live update adds the worker to a resolved, empty collection.
WorkersQueryUpdate(array) ==
  /\ mounted /\ workersQuery.resolved /\ workersQuery.array = <<>>
  /\ array \in ServerLookup(workersQuery.request.id) \ {<<>>}
  /\ QueryEvent("workersUpdated", [workersQuery EXCEPT !.array = array],
                buildersQuery, mastersQuery, buildsQuery)

BuildersQueryResolve ==
  /\ mounted /\ buildersQuery.issued /\ ~buildersQuery.resolved
  /\ QueryEvent("buildersResolved", workersQuery,
                [buildersQuery EXCEPT !.resolved = TRUE], mastersQuery, buildsQuery)

MastersQueryResolve ==
  /\ mounted /\ mastersQuery.issued /\ ~mastersQuery.resolved
  /\ QueryEvent("mastersResolved", workersQuery, buildersQuery,
                [mastersQuery EXCEPT !.resolved = TRUE], buildsQuery)

BuildsQueryResolve ==
  /\ mounted /\ buildsQuery.issued /\ ~buildsQuery.resolved
  /\ QueryEvent("buildsResolved", workersQuery, buildersQuery, mastersQuery,
                [buildsQuery EXCEPT !.resolved = TRUE])

Next ==
  \/ LoadModule
  \/ \E p \in RouteParams : Mount(p)
  \/ Unmount
  \/ \E p \in RouteParams : RouteChange(p)
  \/ onLoadMoreBuilds
  \/ TopbarActionInvoke
  \/ \E w \in ServerWorkers : onWorkerIconClick(w)
  \/ onClose
  \/ \E a \in {<<>>} \cup {<<w>> : w \in ServerWorkers} : WorkersQueryResolve(a)
  \/ \E a \in {<<w>> : w \in ServerWorkers} : WorkersQueryUpdate(a)
  \/ BuildersQueryResolve
  \/ MastersQueryResolve
  \/ BuildsQueryResolve

Spec == Init /\ [][Next]_vars

-----------------------------------------------------------------------------
(* The properties *)

ModalOpeners == {"topbarAction", "onWorkerIconClick"}

\* C1: while the view is mounted, the top-bar action list holds the
\* "Actions..." entry exactly when the worker query is resolved with exactly
\* one record; pending or resolved with no record it is empty, and it never
\* holds more than one entry.
C1_ActionsEntryIffOneRecord ==
  mounted =>
    /\ Len(topBarActions) <= 1
    /\ (topBarActions # <<>>) <=>
         (workersQuery.resolved /\ Len(workersQuery.array) = 1)
    /\ (topBarActions # <<>>) => topBarActions[1].caption = "Actions..."
    /\ (~workersQuery.resolved \/ Len(workersQuery.array) = 0) => topBarActions = <<>>

C1_Witness ==
  /\ mounted /\ workersQuery.resolved /\ Len(workersQuery.array) = 1
  /\ Len(topBarActions) = 1

\* C2: right after the "Actions..." entry is invoked workerForActions is the
\* first (and only) record of the resolved worker query; right after the
\* modal's onClose it is null and no modal is rendered.
C2_ActionsOpensCloseClears ==
  /\ lastOp = "topbarAction" =>
       /\ workersQuery.resolved /\ Len(workersQuery.array) = 1
       /\ workerForActions = workersQuery.array[1]
  /\ lastOp = "onClose" => workerForActions = null /\ modals = <<>>

C2_Witness ==
  /\ lastOp = "onClose" /\ prevWorkerForActions \in ServerWorkers
  /\ workerForActions = null /\ workersQuery.array = <<prevWorkerForActions>>

\* C3: in a mounted view buildsFetchLimit is 100 * (n + 1) after n "load
\* more" invocations, whatever else happened in between; it never decreases,
\* and only "load more" changes it, by exactly 100.
C3_FetchLimitCountsLoadMore ==
  /\ [](mounted => buildsFetchLimit = 100 * (loadMoreCount + 1))
  /\ [][(mounted /\ mounted') =>
          /\ buildsFetchLimit' >= buildsFetchLimit
          /\ buildsFetchLimit' # buildsFetchLimit =>
               /\ lastOp' = "onLoadMore"
               /\ buildsFetchLimit' = buildsFetchLimit + 100]_vars

C3_Witness ==
  /\ mounted /\ loadMoreCount = 2 /\ buildsFetchLimit = 300
  /\ lastOp \in ModalOpeners

\* C4: after every render the builds query in force asks for limit =
\* buildsFetchLimit, order "-buildid" and workerid__eq = the view's worker id;
\* "load more" re-issues it with only the limit changed.
C4_BuildsQueryFollowsLimit ==
  /\ [](mounted =>
          /\ buildsQuery.issued
          /\ buildsQuery.request.query.limit = buildsFetchLimit
          /\ buildsQuery.request.query.order = "-buildid"
          /\ buildsQuery.request.query.workerid__eq = workerid(routeParam))
  /\ [][lastOp' = "onLoadMore" =>
          /\ "builds" \in issuedNow'
          /\ buildsQuery'.request =
               [buildsQuery.request EXCEPT !.query.limit = buildsFetchLimit']]_vars

C4_Witness ==
  /\ mounted /\ lastOp = "onLoadMore" /\ "builds" \in issuedNow
  /\ buildsQuery.request.query.limit = 200

\* C5: when the worker id changes under a mounted view, the worker query and
\* the builds query are issued anew in that step, for the new id.
C5_WorkerIdChangeReissues ==
  [][(mounted /\ mounted' /\ workerid(routeParam') # workerid(routeParam)) =>
       /\ {"workers", "builds"} \subseteq issuedNow'
       /\ ~workersQuery'.resolved /\ ~buildsQuery'.resolved
       /\ workersQuery'.request.id = NumberToString(workerid(routeParam'))
       /\ buildsQuery'.request.query.workerid__eq = workerid(routeParam')]_vars

C5_Witness ==
  /\ mounted /\ lastOp = "routeChange" /\ {"workers", "builds"} \subseteq issuedNow
  /\ loadMoreCount = 0

\* C6: the worker query's id is the string form of the number the builds
\* query filters on, which is Number.parseInt of the route parameter ("" when
\* it is missing); "42" gives id "42" and workerid__eq 42; whatever the
\* parameter, all four queries are issued.
C6_IdFilterIsStringOfParsedId ==
  mounted =>
    /\ workersQuery.issued /\ buildersQuery.issued
    /\ mastersQuery.issued /\ buildsQuery.issued
    /\ workersQuery.request.id =
         NumberToString(buildsQuery.request.query.workerid__eq)
    /\ buildsQuery.request.query.workerid__eq =
         ParseInt(IF routeParam.defined THEN routeParam.value ELSE <<>>)
    /\ routeParam = Param(<<"4", "2">>) =>
         /\ workersQuery.request.id = <<"4", "2">>
         /\ buildsQuery.request.query.workerid__eq = Num(42)

C6_Witness ==
  /\ mounted /\ routeParam = Param(<<"a", "b", "c">>)
  /\ workersQuery.request.id = <<"N", "a", "N">>
  /\ buildsQuery.request.query.workerid__eq = NaN
  /\ buildersQuery.issued /\ mastersQuery.issued

\* C7: once the module is loaded exactly one route is registered, path
\* "workers/:workerid", group "workers", however often the view is mounted
\* or rendered.
C7_OneRouteRegistered ==
  /\ moduleLoaded =>
       registeredRoutes = <<[route |-> "workers/:workerid", group |-> "workers"]>>
  /\ ~moduleLoaded => registeredRoutes = <<>>

C7_Witness ==
  /\ mounted /\ loadMoreCount >= 1 /\ lastOp = "routeChange"
  /\ Len(registeredRoutes) = 1

\* C8: workerForActions is one slot, null or one worker; at most one modal
\* element is rendered, it is rendered exactly when the slot is not null, and
\* it shows the slot's worker, also when the slot is set while a modal is open.
C8_AtMostOneModal ==
  mounted =>
    /\ workerForActions \in {null} \cup ServerWorkers
    /\ Len(modals) <= 1
    /\ (modals # <<>>) <=> (workerForActions # null)
    /\ (modals # <<>>) => modals[1].worker = workerForActions

C8_Witness ==
  /\ mounted /\ lastOp \in ModalOpeners
  /\ prevWorkerForActions \notin {null, workerForActions}
  /\ modals = <<[worker |-> workerForActions]>>

\* C9: the slot goes from null to a target only in a step taken by one of the
\* two openers, from a state in which the worker query's array is not empty,
\* and the target is a record of that array.
C9_OpensOnlyForLoadedWorker ==
  [][(workerForActions = null /\ workerForActions' # null) =>
       /\ lastOp' \in ModalOpeners
       /\ workersQuery.array # <<>>
       /\ \E i \in 1..Len(workersQuery.array) :
            workerForActions' = workersQuery.array[i]]_vars

C9_Witness ==
  /\ mounted /\ lastOp \in ModalOpeners /\ prevWorkerForActions = null
  /\ workerForActions \in ServerWorkers

\* C10: "load more" leaves workerForActions and the modal as they are; setting
\* or clearing workerForActions leaves buildsFetchLimit as it is and issues no
\* builds query; the builds query's dependency list is the fetch limit alone.
C10_StateCellsIndependent ==
  /\ [](mounted => buildsQueryDep = <<buildsFetchLimit>>)
  /\ [][/\ lastOp' = "onLoadMore" =>
             workerForActions' = workerForActions /\ modals' = modals
        /\ lastOp' \in ModalOpeners \cup {"onClose"} =>
             /\ buildsFetchLimit' = buildsFetchLimit
             /\ "builds" \notin issuedNow'
             /\ buildsQuery' = buildsQuery]_vars

C10_Witness ==
  /\ mounted /\ lastOp = "onClose" /\ loadMoreCount = 1
  /\ buildsQuery.resolved /\ buildsFetchLimit = 200

====
